---- MODULE Spec2Model ----
(***************************************************************************)
(* Model of discord_system_observer_bot: the badness counters and the     *)
(* notification flags (statsobserver.py), the limit registry              *)
(* (make_observable_limits), the observer cog's evaluation loop and the    *)
(* collector cog's bounded history (bot.py).                               *)
(***************************************************************************)
EXTENDS Integers, Sequences, FiniteSets, TLC

VARIABLES
    limits,        \* cog.limits: an insertion-ordered dict, a sequence of <<key, ObservableLimit>>
    defaults,      \* the manager's default_threshold, default_increase, default_decrease
    bad_counters,  \* BadCounterManager.bad_counters, a defaultdict(int): a function on the keys made so far
    notified,      \* NotifyBadCounterManager.notified, a defaultdict(bool)
    stats,         \* SystemResourceObserverCog.stats, a defaultdict(int)
    loop,          \* observe_system: "never_started", "running" or "stopped"
    task,          \* where observe_system stands: [pc, idx, cur_value]
    col_stats,     \* SystemStatsCollectorCog.stats, a deque(maxlen): a sequence of snapshots
    col_loop,      \* collect_stats: [state, resumed_at]; state as for observe_system,
                   \* resumed_at (history) the snapshots appended when a start last
                   \* followed a stop, -1 before
    now,           \* the collector's clock, in tick periods
    env,           \* the surroundings: [alive, max_checks, host]
    last,          \* history: the most recent call or limit evaluation and what it did
    hist,          \* history: per limit, the current run of samples and the current excursion
    tick,          \* history: the state at the start of the current tick and the samples seen in it
    appended       \* history: the number of snapshots appended so far

vars == <<limits, defaults, bad_counters, notified, stats, loop, task,
          col_stats, col_loop, now, env, last, hist, tick, appended>>

managerVars  == <<bad_counters, notified>>
observerVars == <<limits, defaults, bad_counters, notified, stats, loop, task>>
collectorVars == <<col_stats, col_loop, now, appended>>

------------------------------------------------------------------------------
(* Bounds of the model *)

\* ticks of observe_system in the full-registry specification
MaxChecks == 3
\* ticks of observe_system when a single limit is followed over a long run
MaxRunChecks == 10
\* largest badness increment, decrement or threshold tried on the bare manager
MaxParam == 3
\* the deque's maxlen in the model
MaxLen == 3
\* collector ticks
MaxNow == 7
\* ticks of observe_system when it evaluates one limit given to it
MaxGivenChecks == 5
\* ticks of observe_system when status and dump commands come in between
MaxQueryChecks == 6

------------------------------------------------------------------------------
(* Python values *)

\* Optional[int]: None is the empty tuple, a value v is <<v>>
None == <<>>
Some(v) == <<v>>

Min(a, b) == IF a <= b THEN a ELSE b
Max(a, b) == IF a >= b THEN a ELSE b

\* d[k] of a defaultdict whose factory gives dflt (the value read)
Get(d, k, dflt) == IF k \in DOMAIN d THEN d[k] ELSE dflt
\* d[k] = v
Put(d, k, v) == [x \in DOMAIN d \cup {k} |-> IF x = k THEN v ELSE d[x]]
\* reading d[k] of a defaultdict makes the key
Touch(d, k, dflt) == Put(d, k, Get(d, k, dflt))

\* dict.keys() in insertion order / dict[key] / dict[key] = val of an ordered dict
Keys(dict) == [i \in 1..Len(dict) |-> dict[i][1]]
KeySet(dict) == {dict[i][1] : i \in 1..Len(dict)}
Lookup(dict, key) == dict[CHOOSE i \in 1..Len(dict) : dict[i][1] = key][2]
DictSet(dict, key, val) ==
    IF key \in KeySet(dict)
    THEN [i \in 1..Len(dict) |-> IF dict[i][1] = key THEN <<key, val>> ELSE dict[i]]
    ELSE Append(dict, <<key, val>>)

------------------------------------------------------------------------------
(* statsobserver.py: BadCounterManager *)

\* the threshold, increment and decrement a call works with
BadThreshold(limit) ==
    IF limit.badness_threshold # None
    THEN limit.badness_threshold[1]
    ELSE defaults.default_threshold

BadInc(limit) ==
    IF limit.badness_inc # None
    THEN limit.badness_inc[1]
    ELSE defaults.default_increase

\* limit_opt is Optional[ObservableLimit]: None or Some(limit)
BadDec(limit_opt) ==
    IF limit_opt # None /\ limit_opt[1].badness_dec # None
    THEN limit_opt[1].badness_dec[1]
    ELSE defaults.default_decrease

\* BadCounterManager.reset(name): name is None or Some(key)
BCM_reset(bc, name_opt) ==
    IF name_opt # None
    THEN Put(bc, name_opt[1], 0)
    ELSE [k \in DOMAIN bc |-> 0]

\* BadCounterManager.threshold_reached: the value returned
threshold_reached(bc, name, limit) == Get(bc, name, 0) >= BadThreshold(limit)

\* BadCounterManager.is_normal: the value returned
is_normal(bc, name) == Get(bc, name, 0) = 0

\* increase_counter without the clamp to the threshold
increase_counter_unclamped(bc, name, limit) ==
    Put(bc, name, Get(bc, name, 0) + BadInc(limit))

\* BadCounterManager.increase_counter: bad_counters after the call
increase_counter(bc, name, limit) ==
    Put(bc, name, Min(BadThreshold(limit), Get(bc, name, 0) + BadInc(limit)))

\* decrease_counter that works out the lower value and does not store it
BCM_decrease_counter_not_stored(bc, name, limit_opt) ==
    Touch(bc, name, 0)

\* BadCounterManager.decrease_counter: bad_counters after the call
BCM_decrease_counter(bc, name, limit_opt) ==
    IF Get(bc, name, 0) > 0
    THEN Put(bc, name, Max(0, Get(bc, name, 0) - BadDec(limit_opt)))
    ELSE Touch(bc, name, 0)

------------------------------------------------------------------------------
(* statsobserver.py: NotifyBadCounterManager; M is [bad_counters, notified] *)

Manager == [bad_counters |-> bad_counters, notified |-> notified]

\* reset that leaves the notified flags alone
reset_counters_only(M, name_opt) ==
    [bad_counters |-> BCM_reset(M.bad_counters, name_opt), notified |-> M.notified]

\* NotifyBadCounterManager.reset(name)
reset(M, name_opt) ==
    [bad_counters |-> BCM_reset(M.bad_counters, name_opt),
     notified |-> IF name_opt # None
                  THEN Put(M.notified, name_opt[1], FALSE)
                  ELSE [k \in DOMAIN M.notified |-> FALSE]]

\* decrease_counter returning the notified flag alone, whether or not the counter got to 0
decrease_counter_result_flag_only(M, name, limit_opt) ==
    Get(M.notified, name, FALSE)

\* decrease_counter returning every change to normal, alert or no alert before
decrease_counter_result_any_change(M, name, limit_opt) ==
    is_normal(M.bad_counters, name)
        # is_normal(BCM_decrease_counter(M.bad_counters, name, limit_opt), name)

\* NotifyBadCounterManager.decrease_counter: the value returned
decrease_counter_result(M, name, limit_opt) ==
    LET was_normal_before == is_normal(M.bad_counters, name)
        has_notified_before == Get(M.notified, name, FALSE)
        is_normal_now == is_normal(BCM_decrease_counter(M.bad_counters, name, limit_opt), name)
    IN  was_normal_before # is_normal_now /\ has_notified_before

\* decrease_counter that leaves the notified flag as it is
decrease_counter_keeps_flag(M, name, limit_opt) ==
    [bad_counters |-> BCM_decrease_counter(M.bad_counters, name, limit_opt),
     notified |-> Touch(M.notified, name, FALSE)]

\* decrease_counter that resets every limit, not the one named, when normal is reached
decrease_counter_resets_all(M, name, limit_opt) ==
    LET bc == BCM_decrease_counter(M.bad_counters, name, limit_opt)
    IN  IF is_normal(bc, name)
        THEN reset([bad_counters |-> bc, notified |-> Touch(M.notified, name, FALSE)], None)
        ELSE [bad_counters |-> bc, notified |-> Touch(M.notified, name, FALSE)]

\* NotifyBadCounterManager.decrease_counter: the manager after the call
decrease_counter(M, name, limit_opt) ==
    LET bc == BCM_decrease_counter(M.bad_counters, name, limit_opt)
    IN  [bad_counters |-> bc,
         notified |-> IF is_normal(bc, name)
                      THEN Put(M.notified, name, FALSE)
                      ELSE Touch(M.notified, name, FALSE)]

\* should_notify that does not look at the notified flag
should_notify_ignores_flag(M, name, limit) ==
    threshold_reached(M.bad_counters, name, limit)

\* NotifyBadCounterManager.should_notify: the value returned
should_notify(M, name, limit) ==
    IF ~threshold_reached(M.bad_counters, name, limit) THEN FALSE
    ELSE IF Get(M.notified, name, FALSE) THEN FALSE
    ELSE TRUE

\* should_notify that marks the limit notified itself when it answers True
should_notify_reads_marks(M, name, limit) ==
    [bad_counters |-> Touch(M.bad_counters, name, 0),
     notified |-> IF threshold_reached(M.bad_counters, name, limit)
                  THEN Put(M.notified, name, TRUE)
                  ELSE M.notified]

\* NotifyBadCounterManager.should_notify: the keys its reads make
should_notify_reads(M, name, limit) ==
    [bad_counters |-> Touch(M.bad_counters, name, 0),
     notified |-> IF threshold_reached(M.bad_counters, name, limit)
                  THEN Touch(M.notified, name, FALSE)
                  ELSE M.notified]

\* mark_notified that writes False where True was meant
mark_notified_unset(M, name) ==
    [bad_counters |-> M.bad_counters, notified |-> Put(M.notified, name, FALSE)]

\* NotifyBadCounterManager.mark_notified
mark_notified(M, name) ==
    [bad_counters |-> M.bad_counters, notified |-> Put(M.notified, name, TRUE)]

------------------------------------------------------------------------------
(* statsobserver.py: ObservableLimit and make_observable_limits *)

\* An ObservableLimit.  fn_check is "lt" (cur < thres) or "gt" (cur > thres);
\* fields are the replacement fields left in message when str.format is called.
ObservableLimit(name, fn_check, unit, threshold, fields, badness_inc, badness_dec, badness_threshold) ==
    [name |-> name, fn_check |-> fn_check, unit |-> unit, threshold |-> threshold,
     fields |-> fields, badness_inc |-> badness_inc, badness_dec |-> badness_dec,
     badness_threshold |-> badness_threshold]

\* the default value of make_observable_limits' include
DefaultInclude == {"cpu", "ram", "disk", "disk_gb", "gpu_load", "gpu_temp"}

\* the two limits of disk number i (counted from 0) mounted at path
DiskLimits(dict, include, i, path) ==
    LET d1 == IF "disk" \in include
              THEN DictSet(dict, "disk_util_perc" \o ToString(i),
                       ObservableLimit("Disk Usage: " \o path, "lt", "%", 95,
                                       {"cur_value", "threshold"}, None, None, None))
              ELSE dict
    IN  IF "disk_gb" \in include
        THEN DictSet(d1, "disk_util_gb" \o ToString(i),
                 ObservableLimit("Disk Space (Free): " \o path, "gt", "GB", 30,
                                 {"path", "cur_value", "threshold"}, None, None, None))
        ELSE d1

RECURSIVE DiskLoop(_, _, _, _)
DiskLoop(dict, include, paths, i) ==
    IF i >= Len(paths) THEN dict
    ELSE DiskLoop(DiskLimits(dict, include, i, paths[i + 1]), include, paths, i + 1)

\* the limits of one GPU with id gid
GpuLimits(dict, include, gid) ==
    LET g == ToString(gid)
        d1 == IF "gpu_load" \in include
              THEN DictSet(dict, "gpu_util_perc:" \o g,
                       ObservableLimit("GPU " \o g \o " Utilisation", "lt", "%", 85,
                                       {"gpu", "cur_value", "threshold"}, Some(2), None, Some(6)))
              ELSE dict
        d2 == IF "gpu_load" \in include
              THEN DictSet(d1, "gpu_mem_perc:" \o g,
                       ObservableLimit("GPU " \o g \o " Memory Utilisation", "lt", "%", 85,
                                       {"gpu", "cur_value", "threshold"}, Some(2), None, Some(6)))
              ELSE d1
    IN  IF "gpu_temp" \in include
        THEN DictSet(d2, "gpu_util_perc:" \o g,
                 ObservableLimit("GPU " \o g \o " Temperature", "lt", "C", 90,
                                 {"gpu", "cur_value", "unit", "threshold"}, Some(1), None, Some(3)))
        ELSE d2

RECURSIVE GpuLoop(_, _, _, _)
GpuLoop(dict, include, gpus, i) ==
    IF i > Len(gpus) THEN dict
    ELSE GpuLoop(GpuLimits(dict, include, gpus[i]), include, gpus, i + 1)

\* make_observable_limits(include) on a host with the mount points disk_paths and,
\* when GPUtil is installed (has_gpu), the GPU ids gpus; include_opt is None or Some(set)
make_observable_limits(include_opt, disk_paths, gpus, has_gpu) ==
    LET include == IF include_opt = None THEN {"disk", "disk_gb", "gpu_temp"} ELSE include_opt[1]
        d0 == <<>>
        d1 == IF "cpu" \in include
              THEN DictSet(d0, "cpu_load_5min",
                       ObservableLimit("CPU Load Avg [5min]", "lt", "%", 95,
                                       {"cur_value", "threshold"}, Some(2), None, Some(6)))
              ELSE d0
        d2 == IF "ram" \in include
              THEN DictSet(d1, "mem_util",
                       ObservableLimit("Memory Utilisation", "lt", "%", 85,
                                       {"cur_value", "threshold"}, Some(1), None, Some(3)))
              ELSE d1
        d3 == IF "disk" \in include \/ "disk_gb" \in include
              THEN DiskLoop(d2, include, disk_paths, 0)
              ELSE d2
    IN  IF ("gpu_load" \in include \/ "gpu_temp" \in include) /\ has_gpu
        THEN GpuLoop(d3, include, gpus, 1)
        ELSE d3

\* limit.fn_check(cur_value, limit.threshold)
fn_check(limit, cur_value) ==
    IF limit.fn_check = "lt" THEN cur_value < limit.threshold ELSE cur_value > limit.threshold

\* limit.message.format(cur_value=..., threshold=...): does it return (TRUE) or raise KeyError
FormatArgs == {"cur_value", "threshold"}
format_ok(limit) == limit.fields \subseteq FormatArgs

------------------------------------------------------------------------------
(* bot.py: SystemResourceObserverCog *)

\* NotifyBadCounterManager(): the defaults of its constructor
DefaultThreshold == 3
DefaultIncrease == 1
DefaultDecrease == 1

CogDefaults ==
    [default_threshold |-> DefaultThreshold,
     default_increase |-> DefaultIncrease,
     default_decrease |-> DefaultDecrease]

\* hosts the cog is constructed on: mount points, GPU ids, whether GPUtil is installed
HostPlain == [disk_paths |-> <<"/">>, gpus |-> <<>>, has_gpu |-> FALSE]
HostGpu == [disk_paths |-> <<"/">>, gpus |-> <<0>>, has_gpu |-> TRUE]
HostBare == [disk_paths |-> <<>>, gpus |-> <<>>, has_gpu |-> FALSE]

\* self.limits.update(other): the keys of other set one after the other
update(dict, other) ==
    LET upd[n \in 0..Len(other)] ==
            IF n = 0 THEN dict ELSE DictSet(upd[n - 1], other[n][1], other[n][2])
    IN  upd[Len(other)]

\* SystemResourceObserverCog.init_limits on a host, from the empty dict of __init__
init_limits(host) ==
    update(<<>>, make_observable_limits(Some(DefaultInclude), host.disk_paths,
                                        host.gpus, host.has_gpu))

\* the values fn_retrieve may return for a limit: below, at and above its threshold
SampleValues(limit) == {limit.threshold - 1, limit.threshold, limit.threshold + 1}

\* stats[key] = 1 in place of stats[key] += 1
Incr_assigns(st, key) == Put(st, key, 1)

\* stats[key] += 1
Incr(st, key) == Put(st, key, Get(st, key, 0) + 1)

\* an exception that ends the for loop: the try/except around the loop, not in it
after_exception_aborts(i) == Len(limits) + 1

\* the position the for loop of observe_system goes on with after an exception
\* caught by its try/except
after_exception(i) == i + 1

\* the position after run_single_check returned
after_return(i) == i + 1

------------------------------------------------------------------------------
(* History variables: what the claims speak about, never read by the program *)

HistInit ==
    [bad_run |-> 0,          \* length of the current or most recent run of bad samples
     good_run |-> 0,         \* good samples since that run ended (or since the start)
     from_normal |-> FALSE,  \* that run began with counter 0 and notified false
     alerts_issued |-> 0,    \* alert sends begun in that run
     alerts_sent |-> 0,      \* alert sends that returned in that run
     alert_at |-> 0,         \* the bad sample of that run whose alert send returned first
     sink_failed |-> FALSE,  \* a send raised in that run or in the good samples after it
     format_failed |-> FALSE,\* formatting the alert raised in that run
     recov_issued |-> 0,     \* recovery sends begun in the good samples after that run
     recov_at |-> 0,         \* the good sample at which the first one was begun
     recov_failed |-> FALSE, \* a recovery send raised in the good samples after that run
     alternating |-> FALSE,  \* the samples since the limit was last at normal go bad,
                             \* good, bad, good, ... (FALSE before the first bad one)
     sent |-> "none",        \* the last message sent for the limit: "alert", "recovery",
                             \* "void" once a send has failed since, "none" at the start
     alerted |-> FALSE,      \* an alert send returned in the current excursion
     reached |-> FALSE,      \* the counter reached the threshold in the current excursion
     alerts_in_exc |-> 0]    \* alert sends that returned in the current excursion

LastInit ==
    [op |-> "none", id |-> "", sample |-> "none", msg |-> "none", sink |-> "none",
     counter_before |-> 0, notified_before |-> FALSE,
     alerted_before |-> FALSE, reached_before |-> FALSE,
     stopped |-> FALSE,      \* observer_stop has returned and observer_start not since
     fresh |-> FALSE,        \* a loop was started and has evaluated no limit yet
     stops |-> 0,            \* observer_stop calls in a row up to now (2: two or more)
     shown |-> <<>>]         \* the table the last status or dump command wrote out

TickInit ==
    [start |-> [bad_counters |-> <<>>, notified |-> <<>>], samples |-> <<>>,
     stopped |-> FALSE,      \* observer_stop ran during this tick
     begun |-> 0,            \* ticks begun so far
     abandoned |-> 0]        \* ticks left by a cancellation before their end

LastCheck(key, sample, msg, sink) ==
    [op |-> "check", id |-> key, sample |-> sample, msg |-> msg, sink |-> sink,
     counter_before |-> Get(bad_counters, key, 0),
     notified_before |-> Get(notified, key, FALSE),
     alerted_before |-> hist[key].alerted,
     reached_before |-> hist[key].reached,
     stopped |-> last.stopped,
     fresh |-> FALSE,
     stops |-> 0,
     shown |-> <<>>]

\* hist[key] after a bad sample that left the counter at c; issued: an alert send begins
HistBad(h, key, c, limit, issued, format_error) ==
    LET fresh == h.bad_run = 0 \/ h.good_run > 0
        b == IF fresh
             THEN [h EXCEPT !.bad_run = 1, !.good_run = 0,
                            !.from_normal = (Get(bad_counters, key, 0) = 0
                                             /\ ~Get(notified, key, FALSE)),
                            !.alerts_issued = 0, !.alerts_sent = 0, !.alert_at = 0,
                            !.sink_failed = FALSE, !.format_failed = FALSE,
                            !.recov_issued = 0, !.recov_at = 0,
                            !.recov_failed = FALSE]
             ELSE [h EXCEPT !.bad_run = h.bad_run + 1]
    IN  [b EXCEPT !.alternating = IF Get(bad_counters, key, 0) = 0
                                        /\ ~Get(notified, key, FALSE)
                                     THEN TRUE
                                     ELSE h.alternating /\ h.good_run > 0,
                  !.alerts_issued = b.alerts_issued + (IF issued THEN 1 ELSE 0),
                  !.format_failed = b.format_failed \/ format_error,
                  !.reached = h.reached \/ c >= BadThreshold(limit)]

\* hist[key] after a good sample that left the counter at c; issued: a recovery send begins
HistGood(h, c, issued) ==
    [h EXCEPT !.good_run = h.good_run + 1,
              !.alternating = h.alternating /\ h.good_run = 0 /\ h.bad_run > 0,
              !.recov_issued = h.recov_issued + (IF issued THEN 1 ELSE 0),
              !.recov_at = IF issued /\ h.recov_issued = 0 THEN h.good_run + 1 ELSE h.recov_at,
              !.alerted = IF c = 0 THEN FALSE ELSE h.alerted,
              !.reached = IF c = 0 THEN FALSE ELSE h.reached,
              !.alerts_in_exc = IF c = 0 THEN 0 ELSE h.alerts_in_exc]

\* hist[key] after the alert send returned
HistAlertSent(h) ==
    [h EXCEPT !.sent = "alert",
              !.alerts_sent = h.alerts_sent + 1,
              !.alert_at = IF h.alerts_sent = 0 THEN h.bad_run ELSE h.alert_at,
              !.alerted = TRUE,
              !.alerts_in_exc = h.alerts_in_exc + 1]

------------------------------------------------------------------------------
(* bot.py: the observer's commands and its task loop *)

AllKeys == KeySet(limits)

\* The loop observe_system is "never_started" (get_task() is None), "running" (its
\* task sleeps between two ticks or is in a tick), "stopped" (its task has ended),
\* or its task waits at a send with a cancellation requested: "stopping" when nothing
\* follows the cancellation, "restarting" when a new task is started once it has ended.
Sends == {"alert_send", "recov_send"}

\* nothing has happened since observer_stop returned
JustStopped == last.op = "stop" /\ last.stopped /\ last.sink = "none"

\* observe_system.cancel() that starts a loop whose task has ended
cancel_toggles(lp, pc) ==
    IF lp = "never_started" THEN lp
    ELSE IF pc = "idle" THEN (IF lp = "stopped" THEN "running" ELSE "stopped")
    ELSE IF lp = "restarting" THEN "restarting" ELSE "stopping"

\* observe_system.cancel() that never reaches a task waiting at a send
cancel_not_delivered(lp, pc) ==
    IF lp = "never_started" THEN lp ELSE IF pc = "idle" THEN "stopped" ELSE lp

\* observe_system.cancel(): no task, nothing happens; a task asleep between two ticks
\* ends; a task waiting at a send gets the cancellation when it is resumed
cancel(lp, pc) ==
    IF lp = "never_started" THEN lp
    ELSE IF pc = "idle" THEN "stopped"
    ELSE IF lp = "restarting" THEN "restarting" ELSE "stopping"

\* observe_system.restart() that leaves a running loop alone
restart_keeps_running(lp, pc) ==
    IF lp = "stopped" THEN {"stopped", "running"} ELSE {lp}

\* observe_system.restart(): the task is cancelled and a new one started when it has
\* ended.  restart() of a loop whose task has ended is left to the library: it starts
\* again or does not.
restart(lp, pc) ==
    IF lp = "stopped" THEN {"stopped", "running"}
    ELSE IF pc = "idle" THEN {"running"}
    ELSE {"restarting"}

\* observer_start: start() when the loop has no task yet, else restart()
ObserverStart ==
    /\ task.pc \in {"idle"} \cup Sends
    /\ loop' \in (IF loop = "never_started" THEN {"running"} ELSE restart(loop, task.pc))
    /\ last' = [last EXCEPT !.stopped = FALSE, !.stops = 0,
                            !.fresh = (loop' = "running" /\ task.pc = "idle")]
    /\ UNCHANGED <<limits, defaults, bad_counters, notified, stats, task,
                   hist, tick, env, collectorVars>>

\* observer_stop: cancel() and reset_notifications(), between two ticks or while the
\* tick waits at a send
ObserverStop ==
    /\ task.pc \in {"idle"} \cup Sends
    /\ loop' = cancel(loop, task.pc)
    /\ bad_counters' = reset(Manager, None).bad_counters
    /\ notified' = reset(Manager, None).notified
    /\ last' = [LastInit EXCEPT !.op = "stop", !.stopped = TRUE,
                                !.stops = IF JustStopped THEN 2 ELSE 1]
    /\ hist' = [k \in DOMAIN hist |-> HistInit]
    /\ tick' = [tick EXCEPT !.stopped = (task.pc # "idle")]
    /\ UNCHANGED <<limits, defaults, stats, task, env, collectorVars>>

\* the cancellation reaches the task at its await of the send and is no Exception
\* (asyncio.CancelledError of Python 3.8 and later): observe_system is left, the tick
\* is not counted, and the task ends; after restart() a new task begins
SendCancelledPropagates ==
    /\ task.pc \in Sends
    /\ loop \in {"stopping", "restarting"}
    /\ loop' = (IF loop = "stopping" THEN "stopped" ELSE "running")
    /\ task' = [pc |-> "idle", idx |-> 0]
    /\ hist' = [hist EXCEPT ![limits[task.idx][1]].sent = "void",
                            ![limits[task.idx][1]].sink_failed = TRUE]
    /\ last' = [last EXCEPT !.sink = "cancelled", !.fresh = (loop = "restarting")]
    /\ tick' = [tick EXCEPT !.abandoned = @ + 1]
    /\ UNCHANGED <<limits, defaults, bad_counters, notified, stats,
                   env, collectorVars>>

\* the cancellation reaches the task at its await of the send and is an Exception
\* (asyncio.CancelledError of Python 3.6 and 3.7, which setup.py admits): the except
\* clause of observe_system logs it, the tick goes on with the next limit, and the
\* task lives on
SendCancelledCaught ==
    /\ task.pc \in Sends
    /\ loop \in {"stopping", "restarting"}
    /\ loop' = "running"
    /\ task' = [pc |-> "check", idx |-> after_exception(task.idx)]
    /\ hist' = [hist EXCEPT ![limits[task.idx][1]].sent = "void",
                            ![limits[task.idx][1]].sink_failed = TRUE]
    /\ last' = [last EXCEPT !.sink = "cancelled"]
    /\ UNCHANGED <<limits, defaults, bad_counters, notified, stats,
                   tick, env, collectorVars>>

\* observe_system is entered: a tick begins
\* a tick that begins by enumerating mount points and GPUs again
TickStartEnumerates ==
    /\ loop = "running"
    /\ task.pc = "idle"
    /\ tick.begun < env.max_checks
    /\ limits' = update(limits, init_limits(env.host))
    /\ task' = [pc |-> "check", idx |-> 1]
    /\ tick' = [start |-> Manager, samples |-> <<>>, stopped |-> FALSE,
                 begun |-> tick.begun + 1, abandoned |-> tick.abandoned]
    /\ UNCHANGED <<defaults, bad_counters, notified, stats, loop,
                   last, hist, env, collectorVars>>

\* observe_system: a tick begins
TickStart ==
    /\ loop = "running"
    /\ task.pc = "idle"
    /\ tick.begun < env.max_checks
    /\ task' = [pc |-> "check", idx |-> 1]
    /\ tick' = [start |-> Manager, samples |-> <<>>, stopped |-> FALSE,
                 begun |-> tick.begun + 1, abandoned |-> tick.abandoned]
    /\ UNCHANGED <<limits, defaults, bad_counters, notified, stats, loop,
                   last, hist, env, collectorVars>>

\* run_single_check(name, limit): fn_retrieve raises, observe_system logs and goes on
RetrieveRaises(i) ==
    /\ task.pc = "check" /\ task.idx = i /\ i \in 1..Len(limits)
    /\ LET key == limits[i][1]
       IN  /\ task' = [pc |-> "check", idx |-> after_exception(i)]
           /\ tick' = [tick EXCEPT !.samples = Put(tick.samples, key, "fail")]
           /\ last' = LastCheck(key, "fail", "none", "none")
    /\ UNCHANGED <<limits, defaults, bad_counters, notified, stats, loop,
                   hist, env, collectorVars>>

\* run_single_check(name, limit) with a value that fails the check, up to its await
\* (the alert send) or to its end
CheckBad(i, cur_value) ==
    /\ task.pc = "check" /\ task.idx = i /\ i \in 1..Len(limits)
    /\ limits[i][1] \in env.alive
    /\ ~fn_check(limits[i][2], cur_value)
    /\ LET key == limits[i][1]
           limit == limits[i][2]
           M1 == [Manager EXCEPT !.bad_counters = increase_counter(bad_counters, key, limit)]
           notify == should_notify(M1, key, limit)
           M2 == should_notify_reads(M1, key, limit)
           c == M2.bad_counters[key]
       IN  /\ stats' = Incr(Incr(stats, "num_limits_reached"),
                            "num_limits_reached:" \o key \o ":" \o limit.name)
           /\ bad_counters' = M2.bad_counters
           /\ notified' = M2.notified
           /\ tick' = [tick EXCEPT !.samples = Put(tick.samples, key, "bad")]
           /\ IF notify /\ format_ok(limit)
              THEN /\ task' = [pc |-> "alert_send", idx |-> i]
                   /\ last' = LastCheck(key, "bad", "alert", "pending")
                   /\ hist' = [hist EXCEPT ![key] = HistBad(@, key, c, limit, TRUE, FALSE)]
              ELSE IF notify
              THEN /\ task' = [pc |-> "check", idx |-> after_exception(i)]
                   /\ last' = LastCheck(key, "bad", "none", "format_error")
                   /\ hist' = [hist EXCEPT ![key] = HistBad(@, key, c, limit, FALSE, TRUE)]
              ELSE /\ task' = [pc |-> "check", idx |-> after_return(i)]
                   /\ last' = LastCheck(key, "bad", "none", "none")
                   /\ hist' = [hist EXCEPT ![key] = HistBad(@, key, c, limit, FALSE, FALSE)]
    /\ UNCHANGED <<limits, defaults, loop, env, collectorVars>>

\* the alert send returns, and the recovery statistic is counted for it
AlertSendReturnsCountsNormal ==
    /\ task.pc = "alert_send"
    /\ loop = "running"
    /\ LET key == limits[task.idx][1]
       IN  /\ notified' = mark_notified(Manager, key).notified
           /\ stats' = Incr(stats, "num_normal_notified")
           /\ hist' = [hist EXCEPT ![key] = HistAlertSent(@)]
    /\ task' = [pc |-> "check", idx |-> after_return(task.idx)]
    /\ last' = [last EXCEPT !.sink = "ok"]
    /\ UNCHANGED <<limits, defaults, bad_counters, loop, tick, env, collectorVars>>

\* the alert send returns: mark_notified and count
AlertSendReturns ==
    /\ task.pc = "alert_send"
    /\ loop = "running"
    /\ LET key == limits[task.idx][1]
       IN  /\ notified' = mark_notified(Manager, key).notified
           /\ stats' = Incr(stats, "num_limits_notified")
           /\ hist' = [hist EXCEPT ![key] = HistAlertSent(@)]
    /\ task' = [pc |-> "check", idx |-> after_return(task.idx)]
    /\ last' = [last EXCEPT !.sink = "ok"]
    /\ UNCHANGED <<limits, defaults, bad_counters, loop, tick, env, collectorVars>>

\* the alert send raises, and the limit is marked notified all the same
AlertSendRaisesMarked ==
    /\ task.pc = "alert_send"
    /\ loop = "running"
    /\ notified' = mark_notified(Manager, limits[task.idx][1]).notified
    /\ hist' = [hist EXCEPT ![limits[task.idx][1]].sent = "void",
                            ![limits[task.idx][1]].sink_failed = TRUE]
    /\ task' = [pc |-> "check", idx |-> after_exception(task.idx)]
    /\ last' = [last EXCEPT !.sink = "failed"]
    /\ UNCHANGED <<limits, defaults, bad_counters, stats, loop,
                   tick, env, collectorVars>>

\* the alert send raises and the exception leaves observe_system: the task ends
AlertSendRaisesPropagates ==
    /\ task.pc = "alert_send"
    /\ loop = "running"
    /\ loop' = "stopped"
    /\ hist' = [hist EXCEPT ![limits[task.idx][1]].sent = "void",
                            ![limits[task.idx][1]].sink_failed = TRUE]
    /\ task' = [pc |-> "idle", idx |-> 0]
    /\ last' = [last EXCEPT !.sink = "failed"]
    /\ UNCHANGED <<limits, defaults, bad_counters, notified, stats,
                   tick, env, collectorVars>>

\* the alert send raises: observe_system logs and goes on
AlertSendRaises ==
    /\ task.pc = "alert_send"
    /\ loop = "running"
    /\ hist' = [hist EXCEPT ![limits[task.idx][1]].sent = "void",
                            ![limits[task.idx][1]].sink_failed = TRUE]
    /\ task' = [pc |-> "check", idx |-> after_exception(task.idx)]
    /\ last' = [last EXCEPT !.sink = "failed"]
    /\ UNCHANGED <<limits, defaults, bad_counters, notified, stats, loop,
                   tick, env, collectorVars>>

\* run_single_check(name, limit) with a value that passes the check, up to its await
\* (the recovery send) or to its end
CheckGood(i, cur_value) ==
    /\ task.pc = "check" /\ task.idx = i /\ i \in 1..Len(limits)
    /\ limits[i][1] \in env.alive
    /\ fn_check(limits[i][2], cur_value)
    /\ LET key == limits[i][1]
           M1 == decrease_counter(Manager, key, None)
           recovered == decrease_counter_result(Manager, key, None)
           c == M1.bad_counters[key]
       IN  /\ bad_counters' = M1.bad_counters
           /\ notified' = M1.notified
           /\ tick' = [tick EXCEPT !.samples = Put(tick.samples, key, "good")]
           /\ hist' = [hist EXCEPT ![key] = HistGood(@, c, recovered)]
           /\ IF recovered
              THEN /\ task' = [pc |-> "recov_send", idx |-> i]
                   /\ last' = LastCheck(key, "good", "recovery", "pending")
              ELSE /\ task' = [pc |-> "check", idx |-> after_return(i)]
                   /\ last' = LastCheck(key, "good", "none", "none")
    /\ UNCHANGED <<limits, defaults, stats, loop, env, collectorVars>>

\* the recovery send returns: count
RecoverySendReturns ==
    /\ task.pc = "recov_send"
    /\ loop = "running"
    /\ stats' = Incr(stats, "num_normal_notified")
    /\ task' = [pc |-> "check", idx |-> after_return(task.idx)]
    /\ last' = [last EXCEPT !.sink = "ok"]
    /\ hist' = [hist EXCEPT ![limits[task.idx][1]].sent = "recovery"]
    /\ UNCHANGED <<limits, defaults, bad_counters, notified, loop,
                   tick, env, collectorVars>>

\* the recovery send raises, and the limit is notified again for another try
RecoverySendRaisesRearmed ==
    /\ task.pc = "recov_send"
    /\ loop = "running"
    /\ notified' = mark_notified(Manager, limits[task.idx][1]).notified
    /\ hist' = [hist EXCEPT ![limits[task.idx][1]].sent = "void",
                            ![limits[task.idx][1]].sink_failed = TRUE,
                            ![limits[task.idx][1]].recov_failed = TRUE]
    /\ task' = [pc |-> "check", idx |-> after_exception(task.idx)]
    /\ last' = [last EXCEPT !.sink = "failed"]
    /\ UNCHANGED <<limits, defaults, bad_counters, stats, loop,
                   tick, env, collectorVars>>

\* the recovery send raises: observe_system logs and goes on
RecoverySendRaises ==
    /\ task.pc = "recov_send"
    /\ loop = "running"
    /\ hist' = [hist EXCEPT ![limits[task.idx][1]].sent = "void",
                            ![limits[task.idx][1]].sink_failed = TRUE,
                            ![limits[task.idx][1]].recov_failed = TRUE]
    /\ task' = [pc |-> "check", idx |-> after_exception(task.idx)]
    /\ last' = [last EXCEPT !.sink = "failed"]
    /\ UNCHANGED <<limits, defaults, bad_counters, notified, stats, loop,
                   tick, env, collectorVars>>

\* the for loop of observe_system is over: count the tick
TickEnd ==
    /\ task.pc = "check" /\ task.idx > Len(limits)
    /\ stats' = Incr(stats, "num_checks")
    /\ task' = [pc |-> "idle", idx |-> 0]
    /\ UNCHANGED <<limits, defaults, bad_counters, notified, loop,
                   last, hist, tick, env, collectorVars>>

\* SystemStatsCollectorCog.__init__
InitCollector ==
    /\ col_stats = <<>>
    /\ col_loop = [state |-> "never_started", resumed_at |-> -1]
    /\ now = 0
    /\ appended = 0

\* SystemResourceObserverCog.__init__ on a host, in surroundings e
InitObserver(host, e) ==
    /\ limits = init_limits(host)
    /\ defaults = CogDefaults
    /\ bad_counters = <<>>
    /\ notified = <<>>
    /\ stats = <<>>
    /\ loop = "never_started"
    /\ task = [pc |-> "idle", idx |-> 0]
    /\ env = [alive |-> e.alive, max_checks |-> e.max_checks, host |-> host]
    /\ last = LastInit
    /\ hist = [k \in KeySet(init_limits(host)) |-> HistInit]
    /\ tick = TickInit

\* Either every limit of a host without disk and GPU can be read, for a few ticks, or
\* one limit of a host with a disk and a GPU can be read, for a long run of ticks.
Init ==
    /\ InitCollector
    /\ \/ InitObserver(HostBare,
                       [alive |-> KeySet(init_limits(HostBare)), max_checks |-> MaxChecks])
       \/ \E k \in KeySet(init_limits(HostGpu)) :
              InitObserver(HostGpu, [alive |-> {k}, max_checks |-> MaxRunChecks])

Next ==
    \/ ObserverStart
    \/ ObserverStop
    \/ TickStart
    \/ \E i \in 1..Len(limits) : RetrieveRaises(i)
    \/ \E i \in 1..Len(limits) : \E v \in SampleValues(limits[i][2]) : CheckBad(i, v)
    \/ AlertSendReturns
    \/ AlertSendRaises
    \/ \E i \in 1..Len(limits) : \E v \in SampleValues(limits[i][2]) : CheckGood(i, v)
    \/ RecoverySendReturns
    \/ RecoverySendRaises
    \/ SendCancelledPropagates
    \/ SendCancelledCaught
    \/ TickEnd

Spec == Init /\ [][Next]_vars

\* The observer evaluating a limit given to it: a registry with one ObservableLimit
\* whose badness_inc, badness_dec and badness_threshold are each None or set.
GivenLimit(inc, dec, thr) ==
    ObservableLimit("Given", "lt", "%", 50, {"cur_value", "threshold"}, inc, dec, thr)

InitGiven ==
    /\ InitCollector
    /\ \E inc \in {None, Some(2)}, dec \in {None, Some(1), Some(2)}, thr \in {None, Some(4)} :
           /\ limits = <<<<"given", GivenLimit(inc, dec, thr)>>>>
           /\ defaults = CogDefaults
           /\ bad_counters = <<>>
           /\ notified = <<>>
           /\ stats = <<>>
           /\ loop = "never_started"
           /\ task = [pc |-> "idle", idx |-> 0]
           /\ env = [alive |-> {"given"}, max_checks |-> MaxGivenChecks, host |-> HostBare]
           /\ last = LastInit
           /\ hist = [k \in {"given"} |-> HistInit]
           /\ tick = TickInit

SpecGiven == InitGiven /\ [][Next]_vars

\* observer_status: the statistics written out ("N/A" when there are none)
ObserverStatus ==
    /\ task.pc \in {"idle"} \cup Sends
    /\ last' = [last EXCEPT !.op = "status", !.shown = stats]
    /\ UNCHANGED <<observerVars, hist, tick, env, collectorVars>>

\* observer_dump_badness: the counters written out ("N/A" when there are none)
ObserverDumpBadness ==
    /\ task.pc \in {"idle"} \cup Sends
    /\ last' = [last EXCEPT !.op = "dump_badness", !.shown = bad_counters]
    /\ UNCHANGED <<observerVars, hist, tick, env, collectorVars>>

\* the rows of observer_dump_limits: threshold, "exceed?" and "notified" of each limit
dump_limits_rows(M, lims) ==
    [k \in KeySet(lims) |->
        [threshold |-> Lookup(lims, k).threshold,
         exceed |-> threshold_reached(M.bad_counters, k, Lookup(lims, k)),
         notified |-> Get(M.notified, k, FALSE)]]

\* a dump that asks decrease_counter whether each limit is normal
dump_limits_reads_decreases(M, lims) ==
    LET rd[n \in 0..Len(lims)] ==
            IF n = 0 THEN M ELSE decrease_counter(rd[n - 1], lims[n][1], None)
    IN  rd[Len(lims)]

\* the manager after observer_dump_limits: reading bad_counters[k] and notified[k]
\* of the two defaultdicts makes the keys of every limit
dump_limits_reads(M, lims) ==
    [bad_counters |-> [k \in DOMAIN M.bad_counters \cup KeySet(lims) |->
                          Get(M.bad_counters, k, 0)],
     notified |-> [k \in DOMAIN M.notified \cup KeySet(lims) |->
                      Get(M.notified, k, FALSE)]]

\* observer_dump_limits: one row for each limit of the registry
ObserverDumpLimits ==
    /\ task.pc \in {"idle"} \cup Sends
    /\ Len(limits) > 0
    /\ bad_counters' = dump_limits_reads(Manager, limits).bad_counters
    /\ notified' = dump_limits_reads(Manager, limits).notified
    /\ last' = [last EXCEPT !.op = "dump_limits",
                            !.shown = dump_limits_rows(Manager, limits)]
    /\ UNCHANGED <<limits, defaults, stats, loop, task, hist, tick, env, collectorVars>>

\* the machine: a disk is mounted or removed while the bot runs (_get_disk_paths
\* answers for the partitions there are when it is called)
HostChanges ==
    /\ \E h \in {HostBare, HostPlain} \ {env.host} : env' = [env EXCEPT !.host = h]
    /\ UNCHANGED <<observerVars, last, hist, tick, collectorVars>>

\* The observer of a host without disk and GPU, with status and dump commands between
\* its ticks and during its sends, and disks coming and going: either both limits can
\* be read, for a few ticks, or one of them, for a longer run of ticks.
InitQuery ==
    /\ InitCollector
    /\ \/ InitObserver(HostBare,
                       [alive |-> KeySet(init_limits(HostBare)), max_checks |-> MaxChecks])
       \/ \E k \in KeySet(init_limits(HostBare)) :
              InitObserver(HostBare, [alive |-> {k}, max_checks |-> MaxQueryChecks])

NextQuery ==
    \/ Next
    \/ ObserverStatus
    \/ ObserverDumpBadness
    \/ ObserverDumpLimits
    \/ HostChanges

SpecQuery == InitQuery /\ [][NextQuery]_vars

------------------------------------------------------------------------------
(* bot.py: SystemStatsCollectorCog *)

\* __init__: round(num) with num = 10 / 60 * 60 * 24 * 7, the maxlen of the deque
\* ("for a total of a week"); the product is 1680 up to the rounding of the floats
stats_maxlen == (10 * 60 * 24 * 7) \div 60

\* @tasks.loop(minutes=5.0) of collect_stats: minutes from one tick to the next
collect_stats_minutes == 5

\* "minutes in hour, hours in day, days in week"
minutes_in_week == 60 * 24 * 7

\* append to a deque that never drops an entry
deque_append_unbounded(dq, x, maxlen) == Append(dq, x)

\* deque.append(x) on a deque(maxlen=maxlen): the oldest entry goes when it is full
deque_append(dq, x, maxlen) ==
    IF Len(dq) >= maxlen THEN Append(SubSeq(dq, 2, Len(dq)), x) ELSE Append(dq, x)

\* statsobserver.collect_stats: the snapshot it returns at time t (the readings left out)
collect_stats(t) == [_id |-> 0, _datetime |-> t]

\* the snapshot numbered with the length of the deque
numbered_by_length(cur_stats, dq) == [cur_stats EXCEPT !._id = Len(dq)]

\* the snapshot collect_stats (the task) appends: numbered after the newest one stored
numbered(cur_stats, dq) ==
    IF Len(dq) > 0 THEN [cur_stats EXCEPT !._id = dq[Len(dq)]._id + 1] ELSE cur_stats

\* a tick of the task collect_stats
CollectStats ==
    /\ col_loop.state = "running"
    /\ now < MaxNow
    /\ col_stats' = deque_append(col_stats, numbered(collect_stats(now), col_stats), MaxLen)
    /\ appended' = appended + 1
    /\ now' = now + 1
    /\ UNCHANGED <<col_loop, observerVars, env, last, hist, tick>>

\* a failing tick that stores the snapshot all the same
CollectStatsRaisesStored ==
    /\ col_loop.state = "running"
    /\ now < MaxNow
    /\ col_stats' = deque_append(col_stats, numbered(collect_stats(now), col_stats), MaxLen)
    /\ now' = now + 1
    /\ UNCHANGED <<col_loop, appended, observerVars, env, last, hist, tick>>

\* a tick of the task collect_stats in which statsobserver.collect_stats raises
CollectStatsRaises ==
    /\ col_loop.state = "running"
    /\ now < MaxNow
    /\ now' = now + 1
    /\ UNCHANGED <<col_stats, col_loop, appended, observerVars, env, last, hist, tick>>

\* collector_start: start() when the loop has no task yet, else restart(); the tick of
\* collect_stats has no await between its reading and its append, so the command
\* comes between two ticks
CollectorStart ==
    /\ \E st \in (IF col_loop.state = "never_started" THEN {"running"}
                   ELSE restart(col_loop.state, "idle")) :
           col_loop' = [state |-> st,
                        resumed_at |-> IF col_loop.state = "stopped" /\ st = "running"
                                       THEN appended ELSE col_loop.resumed_at]
    /\ UNCHANGED <<col_stats, now, appended, observerVars, env, last, hist, tick>>

\* collector_stop: cancel()
CollectorStop ==
    /\ col_loop' = [col_loop EXCEPT !.state = cancel(col_loop.state, "idle")]
    /\ UNCHANGED <<col_stats, now, appended, observerVars, env, last, hist, tick>>

InitColl ==
    /\ InitCollector
    /\ InitObserver(HostPlain,
                    [alive |-> KeySet(init_limits(HostPlain)), max_checks |-> MaxChecks])

NextColl == CollectorStart \/ CollectorStop \/ CollectStats \/ CollectStatsRaises

SpecColl == InitColl /\ [][NextColl]_vars

------------------------------------------------------------------------------
(* The manager called directly: any sequence of its methods on two keys *)

MgrKeys == {"a", "b"}

\* a limit as far as the manager reads it
MgrLimit(inc, dec, thr) ==
    ObservableLimit("limit", "lt", "", 0, {}, inc, dec, thr)

\* a parameter with effective value v: set on the limit, or left to the manager's default
ParamChoices(v, dflt) == {[on_limit |-> Some(v), on_manager |-> dflt],
                          [on_limit |-> None, on_manager |-> v]}

InitMgr ==
    /\ InitCollector
    /\ \E t \in 1..MaxParam, i \in 1..MaxParam, d \in 1..MaxParam :
       \E pt \in ParamChoices(t, DefaultThreshold), pi \in ParamChoices(i, DefaultIncrease),
          pd \in ParamChoices(d, DefaultDecrease) :
           /\ limits = << <<"a", MgrLimit(pi.on_limit, pd.on_limit, pt.on_limit)>>,
                          <<"b", MgrLimit(None, None, None)>> >>
           /\ defaults = [default_threshold |-> pt.on_manager,
                          default_increase |-> pi.on_manager,
                          default_decrease |-> pd.on_manager]
    /\ bad_counters = <<>>
    /\ notified = <<>>
    /\ stats = <<>>
    /\ loop = "never_started"
    /\ task = [pc |-> "idle", idx |-> 0]
    /\ env = [alive |-> MgrKeys, max_checks |-> 0, host |-> HostBare]
    /\ last = LastInit
    /\ hist = [k \in MgrKeys |-> HistInit]
    /\ tick = TickInit

LastCall(op, key) ==
    [LastInit EXCEPT !.op = op, !.id = key,
                     !.counter_before = Get(bad_counters, key, 0),
                     !.notified_before = Get(notified, key, FALSE)]

MgrFrame == UNCHANGED <<limits, defaults, stats, loop, task, env, hist, tick, collectorVars>>

\* bad_checker.increase_counter(name, limit)
MgrIncrease(name) ==
    /\ bad_counters' = increase_counter(bad_counters, name, Lookup(limits, name))
    /\ last' = LastCall("increase", name)
    /\ UNCHANGED notified
    /\ MgrFrame

\* bad_checker.decrease_counter(name, limit) and bad_checker.decrease_counter(name)
MgrDecrease(name, with_limit) ==
    /\ LET limit_opt == IF with_limit THEN Some(Lookup(limits, name)) ELSE None
       IN  /\ bad_counters' = decrease_counter(Manager, name, limit_opt).bad_counters
           /\ notified' = decrease_counter(Manager, name, limit_opt).notified
    /\ last' = LastCall("decrease", name)
    /\ MgrFrame

\* bad_checker.mark_notified(name)
MgrMarkNotified(name) ==
    /\ notified' = mark_notified(Manager, name).notified
    /\ last' = LastCall("mark_notified", name)
    /\ UNCHANGED bad_counters
    /\ MgrFrame

\* bad_checker.reset(name)
MgrReset(name) ==
    /\ bad_counters' = reset(Manager, Some(name)).bad_counters
    /\ notified' = reset(Manager, Some(name)).notified
    /\ last' = LastCall("reset", name)
    /\ MgrFrame

\* bad_checker.reset()
MgrResetAll ==
    /\ bad_counters' = reset(Manager, None).bad_counters
    /\ notified' = reset(Manager, None).notified
    /\ last' = [LastInit EXCEPT !.op = "reset_all"]
    /\ MgrFrame

NextMgr ==
    \/ \E name \in MgrKeys : MgrIncrease(name)
    \/ \E name \in MgrKeys : \E with_limit \in BOOLEAN : MgrDecrease(name, with_limit)
    \/ \E name \in MgrKeys : MgrMarkNotified(name)
    \/ \E name \in MgrKeys : MgrReset(name)
    \/ MgrResetAll

SpecMgr == InitMgr /\ [][NextMgr]_vars

------------------------------------------------------------------------------
(* Claims *)

Counter(k) == Get(bad_counters, k, 0)
Notified(k) == Get(notified, k, FALSE)

\* the evaluation of limit k is not waiting for a send
Settled(k) == ~(task.pc \in {"alert_send", "recov_send"} /\ limits[task.idx][1] = k)

\* the most recent evaluation was of limit k, with this sample
LastSample(k, sample) == last.op = "check" /\ last.id = k /\ last.sample = sample

\* C1: under any sequence of increase_counter, decrease_counter, mark_notified and
\* reset calls, with increments, decrements and thresholds of 1 and more, set on the
\* limit or left to the manager's default, every counter is in 0..effective threshold.
C1_CounterWithinThreshold ==
    \A k \in KeySet(limits) :
        /\ Counter(k) >= 0
        /\ Counter(k) <= BadThreshold(Lookup(limits, k))

\* an increase that had to be clamped, with the threshold left to the manager's default
C1_Witness ==
    \E k \in KeySet(limits) :
        /\ last.op = "increase" /\ last.id = k
        /\ last.counter_before + BadInc(Lookup(limits, k)) > BadThreshold(Lookup(limits, k))
        /\ Counter(k) = BadThreshold(Lookup(limits, k))
        /\ Lookup(limits, k).badness_threshold = None

\* C10: reset(id) leaves id with counter 0 and notified false and every other key as
\* it was; reset() leaves every key with counter 0 and notified false.
C10_ResetRestoresNormal ==
    [][ /\ \A n \in MgrKeys :
              MgrReset(n) =>
                  /\ Get(bad_counters', n, 0) = 0
                  /\ Get(notified', n, FALSE) = FALSE
                  /\ \A o \in MgrKeys \ {n} :
                         /\ Get(bad_counters', o, 0) = Counter(o)
                         /\ Get(notified', o, FALSE) = Notified(o)
        /\ MgrResetAll =>
              \A n \in MgrKeys :
                  Get(bad_counters', n, 0) = 0 /\ Get(notified', n, FALSE) = FALSE
      ]_vars

\* reset(id) of a key that had reached its threshold and was notified, beside another
\* key that is not normal
C10_Witness ==
    \E n \in MgrKeys :
        /\ last.op = "reset" /\ last.id = n
        /\ last.counter_before > 0 /\ last.notified_before
        /\ Counter(n) = 0 /\ ~Notified(n)
        /\ \E o \in MgrKeys \ {n} : Counter(o) > 0 /\ Notified(o)

\* C9: the deque never holds more than maxlen snapshots; once maxlen + 1 snapshots
\* were appended none of them has _id 0; and the _id of the snapshots held go up by 1
\* from each to the next.
C9_HistoryBounded ==
    /\ Len(col_stats) <= MaxLen
    /\ appended >= MaxLen + 1 => \A i \in 1..Len(col_stats) : col_stats[i]._id # 0
    /\ \A i \in 1..(Len(col_stats) - 1) : col_stats[i + 1]._id = col_stats[i]._id + 1

\* the deque is full and has dropped snapshots, some ticks having failed in between
C9_Witness ==
    /\ appended >= MaxLen + 2
    /\ Len(col_stats) = MaxLen
    /\ now > appended

\* C3: a good sample of a limit whose alert send has returned in this excursion begins
\* the recovery send when it brings the counter to 0; a recovery send is begun only by a
\* good sample that brings the counter from above 0 to 0, so neither earlier nor by a
\* further good sample at 0; and no run of good samples begins more than one.
C3_RecoveryOnceAtZero ==
    \A k \in AllKeys :
        /\ LastSample(k, "good") /\ last.alerted_before
                /\ last.counter_before > 0 /\ Counter(k) = 0
              => last.msg = "recovery"
        /\ LastSample(k, "good") /\ last.msg = "recovery"
              => last.counter_before > 0 /\ Counter(k) = 0
        /\ hist[k].recov_issued <= 1
        /\ hist[k].recov_issued = 1 /\ hist[k].good_run > hist[k].recov_at => Counter(k) = 0

\* after an alert, good samples took the counter down step by step, the recovery send
\* was begun by the one that reached 0, and a further good sample sent nothing
C3_Witness ==
    \E k \in AllKeys :
        /\ hist[k].alerts_sent = 1
        /\ hist[k].recov_issued = 1
        /\ hist[k].recov_at = BadThreshold(Lookup(limits, k))
        /\ hist[k].good_run > hist[k].recov_at
        /\ LastSample(k, "good") /\ last.msg = "none" /\ last.counter_before = 0

\* C4: a recovery send is begun only when an alert send returned earlier in the same
\* excursion; a good sample that ends an excursion in which the counter never reached
\* the threshold sends nothing.
C4_NoRecoveryWithoutAlert ==
    \A k \in AllKeys :
        /\ LastSample(k, "good") /\ last.msg = "recovery" => last.alerted_before
        /\ LastSample(k, "good") /\ ~last.reached_before => last.msg = "none"

\* a good sample took the counter from above 0 to 0 in an excursion that never reached
\* the threshold, and nothing was sent
C4_Witness ==
    \E k \in AllKeys :
        /\ LastSample(k, "good") /\ last.counter_before > 0 /\ Counter(k) = 0
        /\ ~last.reached_before /\ ~last.notified_before
        /\ last.msg = "none"

\* C5: in one excursion (from the counter leaving 0, or a reset, until it is 0 again)
\* at most one alert send returns, and once one has returned no alert send is begun.
C5_NoRepeatAlert ==
    \A k \in AllKeys :
        /\ hist[k].alerts_in_exc <= 1
        /\ LastSample(k, "bad") /\ last.msg = "alert" => ~last.alerted_before

\* after the alert the counter fell below the threshold without reaching 0, and a bad
\* sample took it to the threshold again without an alert
C5_Witness ==
    \E k \in AllKeys :
        /\ hist[k].alerts_in_exc = 1
        /\ LastSample(k, "bad") /\ last.alerted_before
        /\ last.counter_before > 0
        /\ last.counter_before < BadThreshold(Lookup(limits, k))
        /\ Counter(k) = BadThreshold(Lookup(limits, k))
        /\ last.msg = "none"

\* the for loop of observe_system is over and TickEnd is next
LoopOver == task.pc = "check" /\ task.idx > Len(limits)

\* the counter a limit has after a tick in which its sample was s, from counter c
Expected(limit, c, s) ==
    IF s = "bad" THEN Min(BadThreshold(limit), c + BadInc(limit))
    ELSE IF s = "good" THEN Max(0, c - defaults.default_decrease)
    ELSE c

\* C8: at the end of a tick in which the retrieval of some limit failed, every limit of
\* the registry has been evaluated; a limit whose retrieval failed has the counter and
\* the notified flag it had when the tick began; and every other limit has the counter
\* its own sample gives from the counter it had when the tick began.
C8_RetrievalFailureIsolated ==
    LoopOver /\ ~tick.stopped /\ (\E f \in DOMAIN tick.samples : tick.samples[f] = "fail")
    => \A k \in AllKeys :
           /\ k \in DOMAIN tick.samples
           /\ tick.samples[k] = "fail" =>
                  /\ Counter(k) = Get(tick.start.bad_counters, k, 0)
                  /\ Notified(k) = Get(tick.start.notified, k, FALSE)
           /\ Counter(k) = Expected(Lookup(limits, k),
                                    Get(tick.start.bad_counters, k, 0), tick.samples[k])

\* a tick in which a limit that was not normal failed and another limit's counter moved
C8_Witness ==
    /\ LoopOver /\ ~tick.stopped
    /\ \E f, g \in AllKeys :
           /\ f # g
           /\ tick.samples[f] = "fail"
           /\ Get(tick.start.bad_counters, f, 0) > 0
           /\ tick.samples[g] \in {"bad", "good"}
           /\ Counter(g) # Get(tick.start.bad_counters, g, 0)

\* a run of bad samples of limit k that began at normal, with no send raised by the sink
\* and no send pending
CleanRun(k) == hist[k].from_normal /\ ~hist[k].sink_failed /\ Settled(k)

\* C2: for a limit with effective threshold 3 and increment 1, a run of bad samples from
\* normal sends no alert on the first two samples, and exactly one alert, on the third
\* sample, however many bad samples follow.
C2_AlertOnThirdSample ==
    \A k \in AllKeys :
        LET limit == Lookup(limits, k)
        IN  BadThreshold(limit) = 3 /\ BadInc(limit) = 1
                /\ CleanRun(k) /\ hist[k].good_run = 0
            => /\ hist[k].bad_run < 3 => hist[k].alerts_issued = 0
               /\ hist[k].bad_run >= 3 => /\ hist[k].alerts_sent = 1
                                          /\ hist[k].alert_at = 3

\* C6: a limit with badness_inc None and badness_threshold None (the disk limits)
\* sends its alert on the first bad sample of a run from normal.
C6_DiskAlertsOnFirstSample ==
    \A k \in AllKeys :
        LET limit == Lookup(limits, k)
        IN  limit.badness_inc = None /\ limit.badness_threshold = None
                /\ CleanRun(k) /\ hist[k].good_run = 0 /\ hist[k].bad_run >= 1
            => hist[k].alerts_sent = 1 /\ hist[k].alert_at = 1

\* C7: for a limit with threshold 6, increment 2 and decrement 1 (the GPU limits), from
\* normal: two bad samples leave the counter at 4 with no alert; the third takes it to 6
\* and sends the alert; one good sample leaves it at 5 with no recovery; five more take
\* it to 0, and the recovery is sent once, on the last of them.
C7_GpuScenario ==
    \A k \in AllKeys :
        LET limit == Lookup(limits, k)
            h == hist[k]
        IN  limit.badness_threshold = Some(6) /\ limit.badness_inc = Some(2) /\ CleanRun(k)
            => /\ h.bad_run = 2 /\ h.good_run = 0 => Counter(k) = 4 /\ h.alerts_issued = 0
               /\ h.bad_run = 3 /\ h.good_run = 0 =>
                      Counter(k) = 6 /\ h.alerts_sent = 1 /\ h.alert_at = 3
               /\ h.bad_run = 3 /\ h.good_run = 1 => Counter(k) = 5 /\ h.recov_issued = 0
               /\ h.bad_run = 3 /\ h.good_run = 6 =>
                      Counter(k) = 0 /\ h.recov_issued = 1 /\ h.recov_at = 6

\* C11 (as stated): in every reachable state a notified limit has its counter at or
\* above its effective threshold.
C11_NotifiedOnlyAtThreshold ==
    \A k \in AllKeys : Notified(k) => Counter(k) >= BadThreshold(Lookup(limits, k))

\* C11 (amended): in every reachable state a notified limit has its counter above 0, in
\* an excursion in which the counter reached the effective threshold and the alert send
\* returned; the flag stays while the counter is below the threshold and not yet 0.
C11_NotifiedOnlyInAlertedExcursion ==
    \A k \in AllKeys :
        Notified(k) => /\ Counter(k) > 0
                       /\ Counter(k) <= BadThreshold(Lookup(limits, k))
                       /\ hist[k].alerted /\ hist[k].reached

\* a notified limit whose counter a good sample has taken below the threshold
C11_Witness ==
    \E k \in AllKeys :
        /\ Notified(k) /\ LastSample(k, "good")
        /\ last.counter_before = BadThreshold(Lookup(limits, k))
        /\ Counter(k) < BadThreshold(Lookup(limits, k))
        /\ Counter(k) > 0

\* C12: when the alert send has returned and mark_notified has run, the limit's counter
\* is at or above its effective threshold; and in every reachable state, those after an
\* observer_stop issued while the tick waited at a send included, a limit with counter 0
\* is not notified.
C12_MarkedAtThresholdClearedAtZero ==
    \A k \in AllKeys :
        /\ LastSample(k, "bad") /\ last.msg = "alert" /\ last.sink = "ok"
              => Notified(k) /\ Counter(k) >= BadThreshold(Lookup(limits, k))
        /\ Counter(k) = 0 => ~Notified(k)

\* observer_stop ran while the alert send of a limit at its threshold was pending; the
\* cancellation has reached the task, and the limit is at 0 and not notified
C12_Witness ==
    \E k \in AllKeys :
        /\ tick.stopped /\ last.op = "stop" /\ last.sink = "cancelled"
        /\ k \in DOMAIN tick.samples /\ tick.samples[k] = "bad"
        /\ Get(tick.start.bad_counters, k, 0) + BadInc(Lookup(limits, k))
               >= BadThreshold(Lookup(limits, k))
        /\ ~Get(tick.start.notified, k, FALSE)
        /\ format_ok(Lookup(limits, k))
        /\ k \in DOMAIN notified /\ ~Notified(k) /\ Counter(k) = 0

\* C13: from the return of observer_stop until the next observer_start every limit has
\* counter 0 and notified false, also when observer_stop ran while a tick waited at a
\* send.
C13_StoppedStaysNormal ==
    last.stopped => \A k \in AllKeys : Counter(k) = 0 /\ ~Notified(k)

C15_MarkedDespiteSinkFailure ==
    \A k \in AllKeys :
        LastSample(k, "bad") /\ last.msg = "alert" /\ last.sink = "failed" => Notified(k)

\* C15 (amended): when the alert send of a limit raises, the limit is left not notified,
\* with its counter at the effective threshold, and nothing more is sent for it in that
\* tick; the next bad sample of the limit begins the alert send again.
C15_SinkFailureLeavesUnnotified ==
    \A k \in AllKeys :
        LET thr == BadThreshold(Lookup(limits, k))
        IN  /\ LastSample(k, "bad") /\ last.msg = "alert" /\ last.sink = "failed"
                  => ~Notified(k) /\ Counter(k) = thr /\ Settled(k)
            /\ LastSample(k, "bad") /\ ~last.notified_before /\ last.counter_before = thr
                  /\ format_ok(Lookup(limits, k))
                  => last.msg = "alert"

\* the alert send raised, and the next bad sample of the limit has begun it again
C15_Witness ==
    \E k \in AllKeys :
        /\ LastSample(k, "bad") /\ last.msg = "alert" /\ last.sink = "pending"
        /\ ~last.notified_before
        /\ last.counter_before = BadThreshold(Lookup(limits, k))
        /\ hist[k].sink_failed /\ hist[k].alerts_issued = 2
        /\ loop = "running"

\* C20: when a loop has been started by observer_start, whether the loop was running,
\* had run before or had never run, its first tick finds every limit with counter 0 and
\* notified false.
C20_RestartFindsNormal ==
    last.fresh /\ loop = "running" /\ task.pc = "idle"
    => \A k \in AllKeys : Counter(k) = 0 /\ ~Notified(k)

\* C16: a tick of the collector in which building the snapshot fails leaves the deque
\* as it was; a tick that succeeds appends the snapshot of that tick with _id 1 above
\* the _id of the newest snapshot held (0 in an empty deque), so no _id is used up by a
\* failed tick; and the ticks go on after a failed one.
C16_FailedTickSkipped ==
    [][ /\ CollectStatsRaises => col_stats' = col_stats
        /\ CollectStats =>
              /\ col_stats' # <<>>
              /\ col_stats'[Len(col_stats')]._datetime = now
              /\ col_stats'[Len(col_stats')]._id =
                     (IF col_stats = <<>> THEN 0 ELSE col_stats[Len(col_stats)]._id + 1)
              /\ Len(col_stats') = Min(MaxLen, Len(col_stats) + 1) ]_vars

\* two ticks failed between two that succeeded, with the deque full before them: the
\* newest snapshot's _id follows the one before it
C16_Witness ==
    /\ Len(col_stats) = MaxLen /\ appended > MaxLen
    /\ col_stats[MaxLen]._datetime = now - 1
    /\ col_stats[MaxLen - 1]._datetime = now - 4
    /\ col_stats[MaxLen]._id = col_stats[MaxLen - 1]._id + 1

\* C17: for every limit of the registry, a bad sample that takes the counter of a limit
\* not notified to the effective threshold begins the alert send (the message formats),
\* and when the send has returned the limit is notified.
C17_AlertFormatsAndIsSent ==
    \A k \in AllKeys :
        LastSample(k, "bad") /\ ~last.notified_before
            /\ Counter(k) >= BadThreshold(Lookup(limits, k))
        => /\ last.msg = "alert"
           /\ last.sink = "ok" => Notified(k)

\* C18: the registry built on a host holds every limit make_observable_limits
\* constructs: the CPU and the memory limit, a usage and a free-space limit for each
\* mount point, and a utilisation, a memory and a temperature limit for each GPU.
C18_NoLimitOverwritten ==
    \A host \in {HostBare, HostPlain, HostGpu} :
        limits = init_limits(host) =>
            LET names == {limits[j][2].name : j \in 1..Len(limits)}
                gpus == IF host.has_gpu THEN host.gpus ELSE <<>>
            IN  /\ Len(limits) = 2 + 2 * Len(host.disk_paths) + 3 * Len(gpus)
                /\ \A i \in 1..Len(host.disk_paths) :
                       /\ ("Disk Usage: " \o host.disk_paths[i]) \in names
                       /\ ("Disk Space (Free): " \o host.disk_paths[i]) \in names
                /\ \A i \in 1..Len(gpus) :
                       /\ ("GPU " \o ToString(gpus[i]) \o " Utilisation") \in names
                       /\ ("GPU " \o ToString(gpus[i]) \o " Memory Utilisation") \in names
                       /\ ("GPU " \o ToString(gpus[i]) \o " Temperature") \in names

C21_NotifiedOnlyByMarkAfterSend ==
    [][ /\ \A k \in AllKeys :
              ~Notified(k) /\ Get(notified', k, FALSE)
              => AlertSendReturns /\ limits[task.idx][1] = k
        /\ (\E i \in 1..Len(limits) : \E v \in SampleValues(limits[i][2]) : CheckBad(i, v))
              => \A k \in AllKeys : Get(notified', k, FALSE) = Notified(k)
        /\ AlertSendRaises
              => LET k == limits[task.idx][1]
                     M == [bad_counters |-> bad_counters', notified |-> notified']
                 IN  /\ ~Get(notified', k, FALSE)
                     /\ should_notify(M, k, Lookup(limits, k)) ]_vars

\* an alert send raised, the next bad sample began it again, and when that send
\* returned the limit was marked notified
C21_Witness ==
    \E k \in AllKeys :
        /\ LastSample(k, "bad") /\ last.msg = "alert" /\ last.sink = "ok"
        /\ hist[k].sink_failed
        /\ hist[k].alerts_issued = 2 /\ hist[k].alerts_sent = 1
        /\ ~last.notified_before /\ Notified(k)

\* C22: when the recovery send of a limit raises, the limit has counter 0 and is not
\* notified, as after a send that returned; and the good samples that follow begin no
\* recovery send for it.
C22_RecoveryFailureStillNormal ==
    \A k \in AllKeys :
        /\ LastSample(k, "good") /\ last.msg = "recovery" /\ last.sink = "failed"
              => Counter(k) = 0 /\ ~Notified(k)
        /\ hist[k].recov_failed /\ hist[k].good_run >= hist[k].recov_at
              => /\ hist[k].recov_issued = 1
                 /\ Counter(k) = 0 /\ ~Notified(k)
        /\ hist[k].recov_failed /\ hist[k].good_run > hist[k].recov_at
              /\ LastSample(k, "good")
              => last.msg = "none"

\* the recovery send raised and two further good samples sent nothing
C22_Witness ==
    \E k \in AllKeys :
        /\ hist[k].recov_failed /\ hist[k].alerts_sent = 1
        /\ hist[k].good_run = hist[k].recov_at + 2
        /\ LastSample(k, "good") /\ last.msg = "none"
        /\ Counter(k) = 0 /\ ~Notified(k)

\* C23: whatever was raised in a tick by a retrieval, a check, the formatting of a
\* message or a send, the for loop of observe_system reaches its end with every limit
\* of the registry evaluated; every tick begun is counted in num_checks when it ends,
\* those left by a cancellation apart; and the loop is still running after the error.
C23_ErrorsStayInsideTick ==
    /\ LoopOver => \A k \in AllKeys : k \in DOMAIN tick.samples
    /\ tick.begun = Get(stats, "num_checks", 0) + tick.abandoned
                        + (IF task.pc = "idle" THEN 0 ELSE 1)
    /\ last.op = "check"
          /\ (last.sample = "fail" \/ last.sink \in {"failed", "format_error"})
          => loop = "running" /\ task.pc \in {"check", "idle"}

\* a tick in which one retrieval raised and the alert send of another limit raised has
\* ended and was counted
C23_Witness ==
    /\ task.pc = "idle" /\ loop = "running"
    /\ tick.abandoned = 0 /\ tick.begun = Get(stats, "num_checks", 0)
    /\ last.op = "check" /\ last.msg = "alert" /\ last.sink = "failed"
    /\ \E f \in AllKeys \ {last.id} : f \in DOMAIN tick.samples /\ tick.samples[f] = "fail"

\* C24: once observer_stop has run during a tick, that tick goes on to no further
\* limit: the task is never again at the head of the for loop of that tick, and no
\* counter or notified flag is changed by it after the reset.
C24_NoEvaluationAfterStop ==
    tick.stopped => /\ task.pc # "check"
                    /\ \A k \in AllKeys : Counter(k) = 0 /\ ~Notified(k)

C27_OtherLimitsUntouched ==
    [][ \/ \E i \in 1..Len(limits) : RetrieveRaises(i)
        \/ \E i \in 1..Len(limits) : \E v \in SampleValues(limits[i][2]) :
               CheckBad(i, v) \/ CheckGood(i, v)
        \/ AlertSendReturns \/ AlertSendRaises
        \/ RecoverySendReturns \/ RecoverySendRaises
        => \A k \in AllKeys \ {limits[task.idx][1]} :
               /\ (k \in DOMAIN bad_counters') = (k \in DOMAIN bad_counters)
               /\ (k \in DOMAIN notified') = (k \in DOMAIN notified)
               /\ Get(bad_counters', k, 0) = Counter(k)
               /\ Get(notified', k, FALSE) = Notified(k) ]_vars

\* the alert of one limit was sent and the limit marked while another limit was
\* away from normal and notified
C27_Witness ==
    \E k \in AllKeys : \E o \in AllKeys \ {k} :
        /\ LastSample(k, "bad") /\ last.msg = "alert" /\ last.sink = "ok"
        /\ ~last.notified_before /\ Notified(k)
        /\ Counter(o) > 0 /\ Notified(o)

\* C28: in a run of bad samples of a limit that began at normal, with no send
\* raising, the alert has been sent by the ceil(threshold / increment)-th bad sample;
\* and after as many good samples in a row as the threshold counts, the limit is back
\* at normal: counter 0 and not notified.
C28_AlertByBoundThenNormal ==
    \A k \in AllKeys :
        LET limit == Lookup(limits, k)
            n == (BadThreshold(limit) + BadInc(limit) - 1) \div BadInc(limit)
        IN  /\ CleanRun(k) /\ hist[k].good_run = 0 /\ hist[k].bad_run >= n
               => hist[k].alerts_sent >= 1 /\ hist[k].alert_at <= n
            /\ hist[k].good_run >= BadThreshold(limit)
               => Counter(k) = 0 /\ ~Notified(k)

\* C29: in every step no statistic gets smaller, observer_stop and its reset
\* included; num_checks grows by 1 in the step that ends a tick and in no other,
\* num_limits_reached by 1 in the evaluation of a bad sample and in no other step,
\* num_limits_notified by 1 when an alert send returns and in no other step, and
\* num_normal_notified by 1 when a recovery send returns and in no other step.
C29_StatsExactAndMonotonic ==
    [][ /\ \A key \in DOMAIN stats : key \in DOMAIN stats' /\ stats'[key] >= stats[key]
        /\ Get(stats', "num_checks", 0)
               = Get(stats, "num_checks", 0) + (IF TickEnd THEN 1 ELSE 0)
        /\ Get(stats', "num_limits_reached", 0)
               = Get(stats, "num_limits_reached", 0)
                 + (IF \E i \in 1..Len(limits) : \E v \in SampleValues(limits[i][2]) :
                           CheckBad(i, v)
                    THEN 1 ELSE 0)
        /\ Get(stats', "num_limits_notified", 0)
               = Get(stats, "num_limits_notified", 0) + (IF AlertSendReturns THEN 1 ELSE 0)
        /\ Get(stats', "num_normal_notified", 0)
               = Get(stats, "num_normal_notified", 0)
                 + (IF RecoverySendReturns THEN 1 ELSE 0) ]_vars

\* ticks were completed, bad samples counted, an alert and a recovery sent, and the
\* loop was stopped afterwards: the statistics are as they were before the stop
C29_Witness ==
    /\ JustStopped
    /\ Get(stats, "num_checks", 0) >= 6
    /\ Get(stats, "num_limits_reached", 0) >= 3
    /\ Get(stats, "num_limits_notified", 0) = 1
    /\ Get(stats, "num_normal_notified", 0) = 1

\* C30: the history deque holds at most maxlen snapshots, and maxlen is the number of
\* ticks collect_stats makes in one week at its interval, so that a week of snapshots
\* is stored before the oldest one is dropped.
C30_CapacityIsOneWeekOfTicks ==
    /\ Len(col_stats) <= stats_maxlen
    /\ stats_maxlen * collect_stats_minutes = minutes_in_week

\* C31: no step of the observer (a tick and its evaluations, observer_start,
\* observer_stop, the status and the dump commands) changes the registry: its ids, in
\* their order, and every field of every limit stay as __init__ made them, also when
\* the mount points of the machine have changed since.
C31_RegistryNeverChanges ==
    [][limits' = limits]_vars

\* ticks have been completed and the limits dumped on a machine whose mount points
\* are no longer those the registry was built from
C31_Witness ==
    /\ last.op = "dump_limits"
    /\ Get(stats, "num_checks", 0) >= 2
    /\ \E k \in AllKeys : Counter(k) > 0
    /\ KeySet(init_limits(env.host)) # AllKeys

\* C36: observer_status, observer_dump_badness and observer_dump_limits leave the
\* value of every limit's counter and notified flag, whether its threshold is reached,
\* and every statistic as they were; and a limit that has never been evaluated is
\* written out by observer_dump_limits as not exceeded and not notified, and has
\* counter 0 and notified false after the command.
C36_QueriesChangeNoValue ==
    [][ ObserverStatus \/ ObserverDumpBadness \/ ObserverDumpLimits
        => /\ stats' = stats
           /\ \A k \in AllKeys :
                  /\ Get(bad_counters', k, 0) = Counter(k)
                  /\ Get(notified', k, FALSE) = Notified(k)
                  /\ threshold_reached(bad_counters', k, Lookup(limits, k))
                         = threshold_reached(bad_counters, k, Lookup(limits, k))
                  /\ k \notin DOMAIN bad_counters
                       => /\ Get(bad_counters', k, 0) = 0 /\ ~Get(notified', k, FALSE)
                          /\ ObserverDumpLimits
                               => ~last'.shown[k].exceed /\ ~last'.shown[k].notified ]_vars

\* the limits were dumped while one limit was at its threshold and notified and
\* the other, which cannot be read, had never been evaluated: the dump made its keys
C36_Witness ==
    /\ last.op = "dump_limits"
    /\ \E k \in AllKeys : /\ last.shown[k].exceed /\ last.shown[k].notified
                          /\ Notified(k) /\ Counter(k) > 0
    /\ \E k \in AllKeys \ env.alive :
           /\ ~last.shown[k].exceed /\ ~last.shown[k].notified
           /\ k \in DOMAIN bad_counters /\ k \in DOMAIN notified
           /\ Counter(k) = 0 /\ ~Notified(k)
    /\ Get(stats, "num_limits_notified", 0) >= 1

\* C32: in every state num_normal_notified <= num_limits_notified <=
\* num_limits_reached, whatever the samples, the failures of retrieval, formatting and
\* sending, and the stops and restarts have been.
C32_StatsOrdered ==
    /\ Get(stats, "num_normal_notified", 0) <= Get(stats, "num_limits_notified", 0)
    /\ Get(stats, "num_limits_notified", 0) <= Get(stats, "num_limits_reached", 0)

\* after an alert send that raised, the alert was sent on the next bad sample and
\* the recovery after it: as many recoveries as alerts, fewer alerts than bad samples
C32_Witness ==
    /\ \E k \in AllKeys : hist[k].sink_failed /\ hist[k].recov_issued = 1 /\ Settled(k)
    /\ Get(stats, "num_normal_notified", 0) = 1
    /\ Get(stats, "num_limits_notified", 0) = 1
    /\ Get(stats, "num_limits_reached", 0) >= 4

\* C33: for each limit, as long as no stop has reset it and no send has failed since
\* the message before, an alert is sent only as the first message or after a recovery,
\* and a recovery is sent only after an alert: never two alerts in a row, never two
\* recoveries in a row, never a recovery first.
C33_MessagesAlternate ==
    [][ /\ AlertSendReturns => hist[limits[task.idx][1]].sent \in {"none", "recovery", "void"}
        /\ RecoverySendReturns => hist[limits[task.idx][1]].sent \in {"alert", "void"} ]_vars

\* alert, recovery and alert again were sent for one limit, with no failure and no
\* stop: three bad samples, three good ones, three bad ones
C33_Witness ==
    \E k \in AllKeys :
        /\ hist[k].sent = "alert" /\ Notified(k) /\ Settled(k)
        /\ Get(stats, "num_limits_reached", 0) = 6
        /\ Get(stats, "num_limits_notified", 0) = 2
        /\ Get(stats, "num_normal_notified", 0) = 1
        /\ tick.abandoned = 0

\* C34: for a limit whose increment is at most the decrement a good sample applies
\* and whose threshold is larger than its increment, as long as its samples since
\* normal go bad, good, bad, good, ..., no alert send and no recovery send is begun:
\* the counter is never above the increment and the limit is never notified.
C34_AlternatingNeverAlerts ==
    \A k \in AllKeys :
        LET limit == Lookup(limits, k)
        IN  /\ BadInc(limit) <= BadDec(None)
            /\ BadThreshold(limit) > BadInc(limit)
            /\ hist[k].alternating
            => /\ Counter(k) <= BadInc(limit) /\ ~Notified(k)
               /\ hist[k].alerts_issued = 0 /\ ~hist[k].format_failed
               /\ hist[k].recov_issued = 0
               /\ Settled(k)

\* five bad samples of one limit, each followed by a good one, and no message
C34_Witness ==
    \E k \in AllKeys :
        /\ hist[k].alternating /\ LastSample(k, "good") /\ Counter(k) = 0
        /\ BadInc(Lookup(limits, k)) <= BadDec(None)
        /\ Get(stats, "num_limits_reached", 0) = 5
        /\ Get(stats, "num_checks", 0) >= 9
        /\ Get(stats, "num_limits_notified", 0) = 0
        /\ ~last.stopped

\* C35: the newest snapshot in the history deque has the _id "snapshots appended so
\* far minus 1", whatever ticks failed and whatever collector_stop and collector_start
\* commands came in between; the deque is never emptied once it holds a snapshot; and
\* no two snapshots in it have the same _id.
C35_IdsNeverReused ==
    /\ appended > 0 => /\ col_stats # <<>>
                       /\ col_stats[Len(col_stats)]._id = appended - 1
    /\ appended = 0 => col_stats = <<>>
    /\ \A i, j \in 1..Len(col_stats) : i # j => col_stats[i]._id # col_stats[j]._id

\* the collector was stopped and started again with snapshots stored; since then
\* it has appended more, the deque has dropped its oldest ones, and a tick has failed
C35_Witness ==
    /\ col_loop.resumed_at >= 2
    /\ appended >= col_loop.resumed_at + 2
    /\ appended > MaxLen /\ Len(col_stats) = MaxLen
    /\ now > appended
    /\ col_stats[Len(col_stats)]._id = appended - 1

====
